---- MODULE Spec2Model ----
(***************************************************************************)
(* A model of the cio asset-inventory and recorded-meetings modules.       *)
(*                                                                         *)
(*   src/cio/src/asset_inventory.rs     barcode derivation, PDF label,     *)
(*                                      label printing                     *)
(*   src/cio/src/recorded_meetings.rs   transcript merge, Google Calendar  *)
(*                                      meeting reconciliation             *)
(*                                                                         *)
(* Short strings (names, URLs) are sequences of one-character strings.     *)
(* Transcripts are run-length encoded (a sequence of runs [c, n]) so that  *)
(* texts around the 100000 character limit stay small values.              *)
(***************************************************************************)
EXTENDS Integers, Sequences, FiniteSets, TLC

VARIABLES
    item,       \* the NewAssetItem / AssetItem being processed
    assetPc,    \* position of the asset-item flow
    calls,      \* number of generate_barcode calls made on item
    pdf,        \* the document returned by generate_pdf_barcode_label
    png_bytes,  \* the barcode PNG handed to generate_pdf_barcode_label
    logo,       \* dimensions of the embedded logo image
    company,    \* the company row the item belongs to
    requests,   \* HTTP requests sent to the printer
    resp        \* what came back for the request print_label sent

assetVars == <<item, assetPc, calls, pdf, png_bytes, logo, company, requests, resp>>

VARIABLES
    events,     \* the calendar listing the runs iterate over
    db,         \* recorded_meetings rows by google_event_id
    airtable,   \* Airtable records of the meetings by google_event_id
    jobs,       \* number of jobs the transcription service has been given
    submitted,  \* number of jobs submitted per google_event_id
    runs,       \* the runs of refresh_google_recorded_meetings
    service     \* what the transcription service and Drive answer

meetVars == <<events, db, airtable, jobs, submitted, runs, service>>

VARIABLES
    self_,      \* the record update_airtable_record is called on
    record,     \* the existing Airtable record passed to it
    mergePc     \* whether update_airtable_record has run

mergeVars == <<self_, record, mergePc>>

VARIABLES
    drive,        \* the files of the shared drive, by folder and name
    zoom,         \* the run of refresh_zoom_recorded_meetings and Zoom's recordings
    batch,        \* the run of refresh_asset_items
    asset_items   \* asset_items rows by name

extVars == <<drive, zoom, batch, asset_items>>

vars == <<assetVars, meetVars, mergeVars, extVars>>

----------------------------------------------------------------------------
(* Bounds *)

\* number of filler characters put between the two ends of a name
MaxFill == 13
\* number of generate_barcode calls made on one item
MaxCalls == 2
\* number of runs of refresh_google_recorded_meetings
MaxRuns == 2

----------------------------------------------------------------------------
(* Strings as sequences of characters *)

Rep(c, n) == [i \in 1..n |-> c]

\* characters removed one by one in generate_barcode
Stripped == <<" ", "/", "(", ")", "-", "'">>

\* characters char::is_whitespace accepts (the ones of the alphabet)
Whitespace == {" ", "\t"}

\* the characters names are made of; "e_acute" stands for the letter U+00E9
\* and "E_ACUTE" for its uppercase U+00C9, both two bytes long in UTF-8
Alphabet == {"x", "A", "7", "e_acute", " ", "\t", "/", "(", ")", "-", "'", ",", ".", "&", "#", ":"}

\* punctuation characters of the alphabet
Punctuation == {"/", "(", ")", "-", "'", ",", ".", "&", "#", ":"}

\* char::to_uppercase on the alphabet
UpperChar(c) == CASE c = "x" -> "X"
                  [] c = "e_acute" -> "E_ACUTE"
                  [] OTHER -> c

\* number of UTF-8 bytes of a character
ByteWidth(c) == IF c \in {"e_acute", "E_ACUTE"} THEN 2 ELSE 1

\* str::to_uppercase
to_uppercase(s) == [i \in 1..Len(s) |-> UpperChar(s[i])]

\* str::replace(c, "")
RECURSIVE replace(_, _)
replace(s, c) ==
    IF s = <<>> THEN <<>>
    ELSE IF Head(s) = c THEN replace(Tail(s), c)
    ELSE <<Head(s)>> \o replace(Tail(s), c)

RECURSIVE trim_start(_)
trim_start(s) ==
    IF s # <<>> /\ Head(s) \in Whitespace THEN trim_start(Tail(s)) ELSE s

RECURSIVE trim_end(_)
trim_end(s) ==
    IF s # <<>> /\ s[Len(s)] \in Whitespace
    THEN trim_end(SubSeq(s, 1, Len(s) - 1)) ELSE s

\* str::trim
trim(s) == trim_end(trim_start(s))

\* String::len: the length in bytes
RECURSIVE len(_)
len(s) == IF s = <<>> THEN 0 ELSE ByteWidth(Head(s)) + len(Tail(s))

----------------------------------------------------------------------------
(* NewAssetItem::generate_barcode *)

max_barcode_len == 13

\* the chain of replace calls, in source order
RECURSIVE StripAll(_, _)
StripAll(s, i) ==
    IF i > Len(Stripped) THEN s ELSE StripAll(replace(s, Stripped[i]), i + 1)

\* while barcode.len() < max_barcode_len { barcode = format!("0{}", barcode) }
RECURSIVE PadLoop(_)
PadLoop(barcode) ==
    IF len(barcode) < max_barcode_len THEN PadLoop(<<"0">> \o barcode) ELSE barcode

\* the padding put after the name instead of before it
BarcodeOf_PadRight(name) ==
    LET core == trim(StripAll(to_uppercase(name), 1))
    IN  core \o Rep("0", IF len(core) < max_barcode_len THEN max_barcode_len - len(core) ELSE 0)

BarcodeOf(name) == PadLoop(trim(StripAll(to_uppercase(name), 1)))

----------------------------------------------------------------------------
(* Inputs *)

Cores == {<<>>} \cup {<<a>> : a \in Alphabet} \cup {<<a, b>> : a, b \in Alphabet}

\* a core whose ends are kept and whose middle is filled with n characters
Fill(core, n) ==
    IF core = <<>> THEN Rep("x", n)
    ELSE <<Head(core)>> \o Rep("x", n) \o Tail(core)

Names == {Fill(core, n) : core \in Cores, n \in 0..MaxFill}

PrevBarcodes == {<<>>, <<"O", "L", "D">>}

Types == {<<>>, <<"T">>}

\* the item as deserialized from an Airtable record, before expand
NewAssetItem(name, type_, barcode, label) ==
    [name |-> name, type_ |-> type_, barcode |-> barcode,
     barcode_png |-> <<>>, barcode_svg |-> <<>>, barcode_pdf_label |-> label,
     cio_company_id |-> 0]

NoPdf == [produced |-> FALSE]
NoImage == [valid |-> FALSE]
NoCompany == [id |-> 0, printer_url |-> <<>>]
NoResponse == [received |-> FALSE, status |-> 0]

\* a transcription service and a Drive whose answers are not constrained
AnyAnswer == [tracked |-> FALSE, ready |-> {}]

\* the variables of the flows a specification does not exercise
AssetIdle ==
    /\ item = NewAssetItem(<<>>, <<>>, <<>>, <<>>)
    /\ assetPc = "unused"
    /\ calls = 0
    /\ pdf = NoPdf
    /\ png_bytes = NoImage
    /\ logo = NoImage
    /\ company = NoCompany
    /\ requests = <<>>
    /\ resp = NoResponse

MeetIdle ==
    /\ events = <<>>
    /\ db = <<>>
    /\ airtable = <<>>
    /\ jobs = 0
    /\ submitted = <<>>
    /\ runs = <<>>
    /\ service = AnyAnswer

ExtIdle ==
    /\ drive = <<>>
    /\ zoom = <<>>
    /\ batch = <<>>
    /\ asset_items = <<>>

MergeIdle ==
    /\ self_ = <<>>
    /\ record = <<>>
    /\ mergePc = "unused"

----------------------------------------------------------------------------
(* The barcode flow: generate_barcode called on an item, possibly again *)

InitBarcode ==
    /\ item \in {NewAssetItem(n, t, b, <<>>) : n \in Names, t \in Types, b \in PrevBarcodes}
    /\ assetPc = "barcode"
    /\ calls = 0
    /\ pdf = NoPdf
    /\ png_bytes = NoImage
    /\ logo = NoImage
    /\ company = NoCompany
    /\ requests = <<>>
    /\ resp = NoResponse
    /\ MeetIdle
    /\ MergeIdle
    /\ ExtIdle

generate_barcode ==
    /\ assetPc = "barcode"
    /\ calls < MaxCalls
    /\ item' = [item EXCEPT !.barcode = BarcodeOf(item.name)]
    /\ calls' = calls + 1
    /\ UNCHANGED <<assetPc, pdf, png_bytes, logo, company, requests, resp, meetVars, mergeVars, extVars>>

NextBarcode == generate_barcode

SpecBarcode == InitBarcode /\ [][NextBarcode]_vars

\* C1: after generate_barcode the barcode is exactly 13 characters long,
\* whatever the name, names whose stripped form is longer than 13 included.
C1_BarcodeIs13Chars ==
    calls >= 1 => Len(item.barcode) = 13

\* C2: after generate_barcode the barcode contains no punctuation character
\* at all, neither one of the six stripped ones nor any other.
C2_BarcodeHasNoPunctuation ==
    calls >= 1 => \A i \in 1..Len(item.barcode) : item.barcode[i] \notin Punctuation

\* the uppercased name without the six stripped characters and without
\* surrounding whitespace
StrippedName(name) ==
    trim(SelectSeq(to_uppercase(name),
                   LAMBDA c : c \notin {" ", "/", "(", ")", "-", "'"}))

\* the number of zeros that bring a text of that many bytes to 13 bytes
ZerosFor(s) == IF len(s) < 13 THEN 13 - len(s) ELSE 0

C3_FunctionOfName ==
    calls >= 1 =>
        item.barcode = Rep("0", ZerosFor(StrippedName(item.name))) \o StrippedName(item.name)

C3_SecondCallKeeps ==
    (calls >= 1 /\ calls' = calls + 1) => item'.barcode = item.barcode

\* C3: generate_barcode is a function of the name alone: the barcode is the
\* uppercased, stripped name behind a prefix of zeros only, whatever the
\* barcode field held before, and a second call leaves the barcode unchanged.
C3_Deterministic == [](C3_FunctionOfName) /\ [][C3_SecondCallKeeps]_vars

\* generate_barcode was called twice on the name "(x)" and the barcode is
\* twelve zeros and X
C3_Witness ==
    /\ calls = 2
    /\ item.name = <<"(", "x", ")">>
    /\ item.barcode = Rep("0", 12) \o <<"X">>

----------------------------------------------------------------------------
(* NewAssetItem::generate_pdf_barcode_label *)

\* lengths of the layout are kept in hundredths of a point
Pt == 100

\* the 4 inch wide label of the other printer
pdf_width_rollo == 4 * 72

pdf_width == 3 * 72
pdf_height == 2 * 72
pdf_margin == 5
font_size == 9

\* swag_inventory::image_to_pdf_object: the decoded image's dimensions
image_to_pdf_object(bytes) == [width |-> bytes.width * Pt, height |-> bytes.height * Pt]

\* the text block of the label
LabelContent(it) ==
    << <<"BT">>,
       <<"Tf", "F1", (font_size * Pt * 100) \div 125>>,
       <<"TL", (font_size * Pt * 125) \div 100>>,
       <<"Td", pdf_margin * Pt, (font_size * Pt * 90 * 3) \div 100>>,
       <<"Tj", it.barcode>>,
       <<"Tf", "F1", font_size * Pt>>,
       <<"'", it.name>>,
       <<"'", <<"T", "y", "p", "e", ":", " ">> \o it.type_>>,
       <<"ET">> >>

\* the "Pages" dictionary
PagesDict == [Type |-> "Pages", Kids |-> <<"page">>, Count |-> 1,
              MediaBox |-> <<0, 0, pdf_width, pdf_height>>]

\* the document built for an item, a decodable barcode PNG and the logo
LabelDocument(it, png, lg) ==
    LET logo_info == image_to_pdf_object(lg)
        logo_w == (pdf_width - (pdf_margin * 2)) * Pt
        logo_h == (logo_info.height * logo_w) \div logo_info.width
        logo_pos == <<(pdf_width * Pt - logo_w) \div 2,
                      pdf_height * Pt - logo_h - pdf_margin * Pt>>
        info == image_to_pdf_object(png)
        position == <<(pdf_width * Pt - info.width) \div 2,
                      pdf_height * Pt - info.height - logo_h - (pdf_margin * 2) * Pt>>
    IN  [produced |-> TRUE,
         version |-> "1.5",
         root |-> "pages",
         pages |-> PagesDict,
         page |-> [Type |-> "Page", Parent |-> "pages",
                   Contents |-> LabelContent(it),
                   images |-> << [at |-> logo_pos, size |-> <<logo_w, logo_h>>],
                                 [at |-> position, size |-> <<info.width, info.height>>] >>]]

PngInputs == {NoImage} \cup {[valid |-> TRUE, width |-> w, height |-> 45] : w \in {100, 216, 300}}
LogoInputs == {[valid |-> TRUE, width |-> 412, height |-> 100],
               [valid |-> TRUE, width |-> 206, height |-> 50],
               [valid |-> TRUE, width |-> 103, height |-> 20]}

LabelNames == {Fill(core, n) : core \in {<<>>, <<"A">>, <<",", ")">>}, n \in {0, 1, MaxFill}}

InitLabel ==
    /\ \E n \in LabelNames, t \in Types :
          \E b \in PrevBarcodes \cup {BarcodeOf(n)} : item = NewAssetItem(n, t, b, <<>>)
    /\ assetPc = "label"
    /\ calls = 0
    /\ pdf = NoPdf
    /\ png_bytes \in PngInputs
    /\ logo \in LogoInputs
    /\ company = NoCompany
    /\ requests = <<>>
    /\ resp = NoResponse
    /\ MeetIdle
    /\ MergeIdle
    /\ ExtIdle

\* bytes that do not decode abort in image_to_pdf_object; no document is returned
generate_pdf_barcode_label ==
    /\ assetPc = "label"
    /\ IF png_bytes.valid
       THEN /\ pdf' = LabelDocument(item, png_bytes, logo)
            /\ assetPc' = "labelled"
       ELSE /\ pdf' = pdf
            /\ assetPc' = "panicked"
    /\ UNCHANGED <<item, calls, png_bytes, logo, company, requests, resp, meetVars, mergeVars, extVars>>

NextLabel == generate_pdf_barcode_label

SpecLabel == InitLabel /\ [][NextLabel]_vars

----------------------------------------------------------------------------
(* AssetItem::print_label *)

Zebra == <<"/", "z", "e", "b", "r", "a">>

\* the status 200 OK taken for the expected one
ACCEPTED_Ok == 2 * 100

\* StatusCode::ACCEPTED
ACCEPTED == 202

\* what can come back: a response with a status, or a failed send
Responses == {[received |-> TRUE, status |-> s] : s \in {ACCEPTED, 200, 500}}
             \cup {[received |-> FALSE, status |-> 0]}

\* the emptiness test without the trim
LabelMissing_NoTrim(it) == it.barcode_pdf_label = <<>>

\* self.barcode_pdf_label.trim().is_empty()
LabelMissing(it) == trim(it.barcode_pdf_label) = <<>>

\* company.printer_url.is_empty()
PrinterMissing(c) == c.printer_url = <<>>

PrintLabelsRequest(it, c) ==
    [method |-> "POST", to |-> c.printer_url \o Zebra,
     url |-> it.barcode_pdf_label, quantity |-> 1]

LabelUrls == {lead \o body \o trail :
                lead \in {<<>>, <<" ">>, <<"\t">>},
                body \in {<<>>, <<"u">>, <<"u", " ", "v">>},
                trail \in {<<>>, <<" ">>}}

PrinterUrls == {<<>>, <<" ">>, <<"p">>, <<"p", "/">>}

InitPrint ==
    /\ \E l \in LabelUrls : item = [NewAssetItem(<<"A">>, <<"T">>, BarcodeOf(<<"A">>), l)
                                        EXCEPT !.cio_company_id = 1]
    /\ assetPc = "print"
    /\ calls = 0
    /\ pdf = NoPdf
    /\ png_bytes = NoImage
    /\ logo = NoImage
    /\ \E u \in PrinterUrls : company = [id |-> 1, printer_url |-> u]
    /\ requests = <<>>
    /\ resp = NoResponse
    /\ MeetIdle
    /\ MergeIdle
    /\ ExtIdle

print_label ==
    /\ assetPc = "print"
    /\ IF LabelMissing(item) \/ PrinterMissing(company)
       THEN /\ assetPc' = "returned"
            /\ UNCHANGED <<requests, resp>>
       ELSE \E r \in Responses :
            /\ requests' = Append(requests, PrintLabelsRequest(item, company))
            /\ resp' = r
            /\ assetPc' = IF r.received /\ r.status = ACCEPTED
                           THEN "returned" ELSE "panicked"
    /\ UNCHANGED <<item, calls, pdf, png_bytes, logo, company, meetVars, mergeVars, extVars>>

NextPrint == print_label

SpecPrint == InitPrint /\ [][NextPrint]_vars

\* a text that is empty or made of whitespace only
Blank(s) == \A i \in 1..Len(s) : s[i] \in Whitespace

\* C10: print_label sends no request and returns normally when the item's
\* barcode_pdf_label is empty or whitespace-only or the company's printer_url
\* is empty; a request is sent only when both are non-empty.
C10_SkipWithoutRequest ==
    assetPc # "print" =>
        /\ (Blank(item.barcode_pdf_label) \/ company.printer_url = <<>>)
              => (requests = <<>> /\ assetPc = "returned")
        /\ requests # <<>>
              => (~Blank(item.barcode_pdf_label) /\ company.printer_url # <<>>)

\* print_label returned without a request for a whitespace-only label,
\* although the company has a printer
C10_Witness ==
    /\ assetPc = "returned"
    /\ requests = <<>>
    /\ item.barcode_pdf_label = <<"\t", " ">>
    /\ company.printer_url = <<"p">>

\* C11: when print_label sends, it sends exactly one POST to
\* <printer_url>/zebra carrying the item's barcode_pdf_label as url and
\* quantity 1, and it completes normally if and only if the response status
\* is 202; any other outcome aborts, and nothing is sent again.
C11_OnePostAccepted ==
    (assetPc # "print" /\ requests # <<>>) =>
        /\ Len(requests) = 1
        /\ requests[1].method = "POST"
        /\ requests[1].to = company.printer_url \o <<"/", "z", "e", "b", "r", "a">>
        /\ requests[1].url = item.barcode_pdf_label
        /\ requests[1].quantity = 1
        /\ assetPc \in {"returned", "panicked"}
        /\ assetPc = "returned" <=> (resp.received /\ resp.status = 202)

\* the label " u" was posted once to "p//zebra", the printer answered 500
\* and print_label aborted
C11_Witness ==
    /\ assetPc = "panicked"
    /\ Len(requests) = 1
    /\ requests[1].url = <<" ", "u">>
    /\ requests[1].to = <<"p", "/", "/", "z", "e", "b", "r", "a">>
    /\ resp.received
    /\ resp.status = 500

----------------------------------------------------------------------------
(* Transcripts: run-length encoded texts *)

\* the text made of n times the character c
Text(c, n) == IF n = 0 THEN <<>> ELSE <<[c |-> c, n |-> n]>>

\* number of characters of a text
RECURSIVE chars(_)
chars(t) == IF t = <<>> THEN 0 ELSE Head(t).n + chars(Tail(t))

RECURSIVE trim_start_text(_)
trim_start_text(t) ==
    IF t # <<>> /\ Head(t).c \in Whitespace THEN trim_start_text(Tail(t)) ELSE t

RECURSIVE trim_end_text(_)
trim_end_text(t) ==
    IF t # <<>> /\ t[Len(t)].c \in Whitespace
    THEN trim_end_text(SubSeq(t, 1, Len(t) - 1)) ELSE t

\* the whitespace removed at the start only
trim_text_StartOnly(t) == trim_start_text(t)

\* str::trim on a transcript
trim_text(t) == trim_end_text(trim_start_text(t))

\* utils::truncate: the first max_chars characters of the text
RECURSIVE truncate(_, _)
truncate(t, max_chars) ==
    IF t = <<>> \/ max_chars = 0 THEN <<>>
    ELSE IF Head(t).n >= max_chars THEN Text(Head(t).c, max_chars)
    ELSE <<Head(t)>> \o truncate(Tail(t), max_chars - Head(t).n)

----------------------------------------------------------------------------
(* RecordedMeeting::update_airtable_record *)

\* a limit one character longer
TranscriptLimit_Longer == 100000 + 1

TranscriptLimit == 100000

\* the merge with the two tests on self instead of on record
update_airtable_record_KeepSelf(me, rec) ==
    [me EXCEPT
        !.transcript_id = IF me.transcript_id = "" THEN rec.transcript_id ELSE @,
        !.transcript = truncate(IF me.transcript = <<>> THEN rec.transcript ELSE @,
                                TranscriptLimit)]

\* self after update_airtable_record(self, record)
update_airtable_record(me, rec) ==
    [me EXCEPT
        !.transcript_id = IF rec.transcript_id # "" THEN rec.transcript_id ELSE @,
        !.transcript = truncate(IF rec.transcript # <<>> THEN rec.transcript ELSE @,
                                TranscriptLimit)]

\* the fields of a recorded meeting the reconciliation reads or writes
RecordedMeeting(id, video, transcript, transcript_id) ==
    [google_event_id |-> id, video |-> video, chat_log_link |-> "",
     transcript |-> transcript, transcript_id |-> transcript_id]

MergeTexts == {<<>>, Text("d", 3), Text("a", 3), Text(" ", 2),
               Text("d", TranscriptLimit), Text("a", TranscriptLimit + 1),
               Text("d", TranscriptLimit - 1) \o Text("e", 2)}

MergeIds == {"", "job1", "old"}

InitMerge ==
    /\ \E t \in MergeTexts, i \in MergeIds : self_ = RecordedMeeting("e1", "v1", t, i)
    /\ \E t \in MergeTexts, i \in MergeIds : record = RecordedMeeting("e1", "v0", t, i)
    /\ mergePc = "call"
    /\ AssetIdle
    /\ MeetIdle
    /\ ExtIdle

\* record keeps the Airtable record as passed, self_ is updated in place
UpdateAirtableRecord ==
    /\ mergePc = "call"
    /\ self_' = update_airtable_record(self_, record)
    /\ mergePc' = "returned"
    /\ UNCHANGED <<record, assetVars, meetVars, extVars>>

NextMerge == UpdateAirtableRecord

SpecMerge == InitMerge /\ [][NextMerge]_vars

\* C8: update_airtable_record(self, record) keeps self's transcript when it
\* is non-empty and takes the Airtable record's transcript only when self's is
\* empty, and the same for transcript_id (the transcript up to the cut at
\* 100000 characters).
C8_MergeKeepsSelf ==
    [][(mergePc = "call" /\ mergePc' = "returned") =>
        /\ self_'.transcript =
              truncate(IF self_.transcript # <<>> THEN self_.transcript ELSE record.transcript,
                       TranscriptLimit)
        /\ self_'.transcript_id =
              IF self_.transcript_id # "" THEN self_.transcript_id ELSE record.transcript_id]_vars

\* lines 71-76: the transcript before the cut of line 78
Merged == IF record.transcript # <<>> THEN record.transcript ELSE self_.transcript

----------------------------------------------------------------------------
(* The stores of refresh_google_recorded_meetings *)

NoRow == [exists |-> FALSE]

\* a row of recorded_meetings, or an Airtable record, holding a meeting
Row(meeting) == [exists |-> TRUE, fields |-> meeting]

\* RecordedMeeting::get_from_db
get_from_db(id) == db[id]

\* get_existing_airtable_record
get_existing_airtable_record(id) == airtable[id]

\* upsert_in_airtable: the record is created from the row, or updated with
\* the row as changed by update_airtable_record
upsert_in_airtable(at, meeting) ==
    LET id == meeting.google_event_id
        existing == at[id]
    IN  [at EXCEPT ![id] =
            Row(update_airtable_record(meeting,
                    IF existing.exists THEN existing.fields ELSE meeting))]

\* upsert_in_db, and update_in_db: the row of the meeting's id is written
upsert_in_db(d, meeting) == [d EXCEPT ![meeting.google_event_id] = Row(meeting)]

\* RecordedMeetings::update_airtable: every row is synchronized to Airtable
RECURSIVE update_airtable(_, _)
update_airtable(at, ids) ==
    IF ids = {} THEN at
    ELSE LET id == CHOOSE x \in ids : TRUE
             next == IF db[id].exists THEN upsert_in_airtable(at, db[id].fields) ELSE at
         IN  update_airtable(next, ids \ {id})

----------------------------------------------------------------------------
(* Calendar events *)

starts_with(title, prefix) ==
    Len(title) >= Len(prefix) /\ SubSeq(title, 1, Len(prefix)) = prefix

Attachment(mime_type, title, file_url) ==
    [mime_type |-> mime_type, title |-> title, file_url |-> file_url]

Event(id, summary, attachments) ==
    [id |-> id, summary |-> summary, attachments |-> attachments]

\* the file_url of the last attachment of that type whose title starts with
\* the summary, "" when there is none
RECURSIVE LastMatching(_, _, _, _)
LastMatching(e, mime_type, k, found) ==
    IF k > Len(e.attachments) THEN found
    ELSE LET a == e.attachments[k]
         IN  LastMatching(e, mime_type, k + 1,
                 IF a.mime_type = mime_type /\ starts_with(a.title, e.summary)
                 THEN a.file_url ELSE found)

VideoOf(e) == LastMatching(e, "video/mp4", 1, "")
ChatLogLinkOf(e) == LastMatching(e, "text/plain", 1, "")

EventIds == {"e1"}

Summary == <<"S">>

EventShapes ==
    { <<>>,
      <<Attachment("video/mp4", <<"x", "S">>, "v2")>>,
      <<Attachment("text/plain", <<"S">>, "c1")>>,
      <<Attachment("text/plain", <<"S">>, "c1"), Attachment("video/mp4", <<"S", "x">>, "v1")>> }

\* what download_file_by_id(..).unwrap_or_default() can give for the video
VideoContents == {<<>>, <<"b">>}

\* what get_transcript(..).unwrap_or_default() can give: nothing (an error),
\* whitespace, or a text with whitespace around it
PollResults == {<<>>, Text(" ", 2), Text(" ", 1) \o Text("r", 4) \o Text("\t", 1)}

\* the transcript of a job the service has completed
Completed == Text(" ", 1) \o Text("r", 4) \o Text("\t", 1)

\* what the download of the video gives: anything, or, when the service is
\* tracked, the bytes, which stay available
Downloads == IF service.tracked THEN {<<"b">>} ELSE VideoContents

\* what the poll of the job id gives: anything, or, when the service is
\* tracked, the transcript once the job is completed and nothing before
Answers(id) ==
    IF ~service.tracked THEN PollResults
    ELSE IF id \in service.ready THEN {Completed}
    ELSE {<<>>, Text(" ", 2)}

\* the identifier of the n-th job of the transcription service
JobId(n) == "job" \o ToString(n)

StoredTexts == {<<>>, Text("d", 3)}
StoredIds == {"", "old"}
AirtableTexts == {<<>>, Text("a", 3)}
AirtableIds == {"", "air"}

----------------------------------------------------------------------------
(* refresh_google_recorded_meetings *)

RunIds == 1..MaxRuns

NoMeeting == RecordedMeeting("", "", <<>>, "")

\* a run before it starts, and between two events
IdleRun ==
    [pc |-> "idle", i |-> 0, video_contents |-> <<>>,
     m |-> NoRow, existing_airtable |-> NoRow,
     meeting |-> NoMeeting, db_meeting |-> NoMeeting,
     job |-> "", polled_id |-> "", polled |-> <<>>]

InitMeeting ==
    /\ \E shape \in EventShapes : events = <<Event("e1", Summary, shape)>>
    /\ \E row \in {NoRow} \cup {Row(RecordedMeeting("e1", "v0", t, i)) :
                                    t \in StoredTexts, i \in StoredIds} :
          db = [id \in EventIds |-> row]
    /\ \E rec \in {NoRow} \cup {Row(RecordedMeeting("e1", "v0", t, i)) :
                                    t \in AirtableTexts, i \in AirtableIds} :
          airtable = [id \in EventIds |-> rec]
    /\ jobs = 0
    /\ submitted = [id \in EventIds |-> 0]
    /\ runs = [r \in RunIds |-> IdleRun]
    /\ service = AnyAnswer
    /\ AssetIdle
    /\ MergeIdle
    /\ ExtIdle

\* the event the run is at
EventAt(r) == events[runs[r].i]

\* the run goes on with the event after the current one
Continue(run) ==
    [run EXCEPT !.pc = "loop", !.i = @ + 1, !.video_contents = <<>>,
                !.m = NoRow, !.existing_airtable = NoRow,
                !.meeting = NoMeeting, !.db_meeting = NoMeeting]

\* line 273: the rows are synchronized to Airtable, then the listing is fetched
StartRun(r) ==
    /\ runs[r].pc = "idle"
    /\ airtable' = update_airtable(airtable, EventIds)
    /\ runs' = [runs EXCEPT ![r].pc = "loop", ![r].i = 1]
    /\ UNCHANGED <<events, db, jobs, submitted, service, assetVars, mergeVars, extVars>>

\* lines 316-398: the event is skipped, or its video is downloaded and the
\* meeting is built with an empty transcript and transcript_id (of the other
\* fields, copied from the event, the two attachment links are kept)
NextEvent(r) ==
    /\ runs[r].pc = "loop"
    /\ IF runs[r].i > Len(events)
       THEN runs' = [runs EXCEPT ![r].pc = "done"]
       ELSE LET e == EventAt(r)
                video == VideoOf(e)
            IN  IF e.attachments = <<>> \/ video = ""
                THEN runs' = [runs EXCEPT ![r] = Continue(@)]
                ELSE \E contents \in Downloads :
                        runs' = [runs EXCEPT
                                    ![r].pc = "get_from_db",
                                    ![r].video_contents = contents,
                                    ![r].meeting =
                                        [RecordedMeeting(e.id, video, <<>>, "")
                                            EXCEPT !.chat_log_link = ChatLogLinkOf(e)]]
    /\ UNCHANGED <<events, db, airtable, jobs, submitted, service, assetVars, mergeVars, extVars>>

\* lines 401-405
GetFromDb(r) ==
    /\ runs[r].pc = "get_from_db"
    /\ LET m == get_from_db(EventAt(r).id)
       IN  runs' = [runs EXCEPT
                       ![r].m = m,
                       ![r].meeting.transcript = IF m.exists THEN m.fields.transcript ELSE @,
                       ![r].meeting.transcript_id = IF m.exists THEN m.fields.transcript_id ELSE @,
                       ![r].pc = IF m.exists THEN "get_airtable" ELSE "upsert"]
    /\ UNCHANGED <<events, db, airtable, jobs, submitted, service, assetVars, mergeVars, extVars>>

\* the Airtable values taken whenever they are non-empty
FillFromAirtable_Always(meeting, existing_airtable) ==
    IF existing_airtable.exists
    THEN [meeting EXCEPT
            !.transcript = IF existing_airtable.fields.transcript # <<>>
                           THEN existing_airtable.fields.transcript ELSE @,
            !.transcript_id = IF existing_airtable.fields.transcript_id # ""
                              THEN existing_airtable.fields.transcript_id ELSE @]
    ELSE meeting

\* lines 408-415: the fields still empty are taken from the Airtable record
FillFromAirtable(meeting, existing_airtable) ==
    IF existing_airtable.exists
    THEN [meeting EXCEPT
            !.transcript = IF meeting.transcript = <<>>
                           THEN existing_airtable.fields.transcript ELSE @,
            !.transcript_id = IF meeting.transcript_id = ""
                              THEN existing_airtable.fields.transcript_id ELSE @]
    ELSE meeting

GetAirtable(r) ==
    /\ runs[r].pc = "get_airtable"
    /\ LET existing_airtable == get_existing_airtable_record(EventAt(r).id)
       IN  runs' = [runs EXCEPT
                       ![r].existing_airtable = existing_airtable,
                       ![r].meeting = FillFromAirtable(@, existing_airtable),
                       ![r].pc = "upsert"]
    /\ UNCHANGED <<events, db, airtable, jobs, submitted, service, assetVars, mergeVars, extVars>>

\* the test of line 424 on the transcript_id alone
NeedsJob_IdOnly(db_meeting) == db_meeting.transcript_id = ""

\* the test of line 424 on the transcript alone
NeedsJob_NoTranscript(db_meeting) == db_meeting.transcript = <<>>

\* line 424
NeedsJob(db_meeting) == db_meeting.transcript_id = "" /\ db_meeting.transcript = <<>>

\* a poll whatever the row holds
NeedsTranscript_Always(db_meeting) == TRUE

\* no poll at all
NeedsTranscript_Never(db_meeting) == FALSE

\* line 435
NeedsTranscript(db_meeting) == db_meeting.transcript = <<>>

\* lines 419-424 and 432-435: the meeting is upserted, and the row returned
\* decides between a new job, a poll and nothing
Upsert(r) ==
    /\ runs[r].pc = "upsert"
    /\ LET db_meeting == runs[r].meeting
       IN  /\ db' = upsert_in_db(db, db_meeting)
           /\ airtable' = upsert_in_airtable(airtable, db_meeting)
           /\ runs' = [runs EXCEPT ![r] =
                 IF runs[r].video_contents # <<>>
                 THEN IF NeedsJob(db_meeting)
                      THEN [@ EXCEPT !.db_meeting = db_meeting, !.pc = "create_job"]
                      ELSE IF NeedsTranscript(db_meeting)
                           THEN [@ EXCEPT !.db_meeting = db_meeting, !.pc = "get_transcript"]
                           ELSE Continue(@)
                 ELSE Continue(@)]
    /\ UNCHANGED <<events, jobs, submitted, service, assetVars, mergeVars, extVars>>

\* a submission held back when the event already has a job
CreateJob_Guarded(r) ==
    /\ runs[r].pc = "create_job"
    /\ submitted[EventAt(r).id] = 0
    /\ jobs' = jobs + 1
    /\ submitted' = [submitted EXCEPT ![EventAt(r).id] = @ + 1]
    /\ runs' = [runs EXCEPT ![r].job = JobId(jobs + 1),
                            ![r].db_meeting.transcript_id = JobId(jobs + 1),
                            ![r].pc = "update_job"]
    /\ UNCHANGED <<events, db, airtable, service, assetVars, mergeVars, extVars>>

\* lines 428-430
CreateJob(r) ==
    /\ runs[r].pc = "create_job"
    /\ jobs' = jobs + 1
    /\ submitted' = [submitted EXCEPT ![EventAt(r).id] = @ + 1]
    /\ runs' = [runs EXCEPT ![r].job = JobId(jobs + 1),
                            ![r].db_meeting.transcript_id = JobId(jobs + 1),
                            ![r].pc = "update_job"]
    /\ UNCHANGED <<events, db, airtable, service, assetVars, mergeVars, extVars>>

\* db_meeting.update(db): the row and the Airtable record are written
Update(r, pc) ==
    /\ runs[r].pc = pc
    /\ db' = upsert_in_db(db, runs[r].db_meeting)
    /\ airtable' = upsert_in_airtable(airtable, runs[r].db_meeting)
    /\ runs' = [runs EXCEPT ![r] = Continue(@)]
    /\ UNCHANGED <<events, jobs, submitted, service, assetVars, mergeVars, extVars>>

\* line 431
UpdateJob(r) == Update(r, "update_job")

\* lines 437-441
GetTranscript(r) ==
    /\ runs[r].pc = "get_transcript"
    /\ \E transcript \in Answers(runs[r].db_meeting.transcript_id) :
          runs' = [runs EXCEPT ![r].db_meeting.transcript = trim_text(transcript),
                                ![r].polled_id = runs[r].db_meeting.transcript_id,
                                ![r].polled = transcript,
                                ![r].pc = "update_transcript"]
    /\ UNCHANGED <<events, db, airtable, jobs, submitted, service, assetVars, mergeVars, extVars>>

\* line 442
UpdateTranscript(r) == Update(r, "update_transcript")

\* the process stops in the middle of a run
Crash(r) ==
    /\ runs[r].pc \notin {"idle", "done", "crashed"}
    /\ runs' = [runs EXCEPT ![r].pc = "crashed"]
    /\ UNCHANGED <<events, db, airtable, jobs, submitted, service, assetVars, mergeVars, extVars>>

NextMeeting ==
    \E r \in RunIds :
        \/ StartRun(r)
        \/ NextEvent(r)
        \/ GetFromDb(r)
        \/ GetAirtable(r)
        \/ Upsert(r)
        \/ CreateJob(r)
        \/ UpdateJob(r)
        \/ GetTranscript(r)
        \/ UpdateTranscript(r)
        \/ Crash(r)

SpecMeeting == InitMeeting /\ [][NextMeeting]_vars

\* no run is under way
NoneActive == \A q \in RunIds : runs[q].pc \in {"idle", "done", "crashed"}

\* the steps of the runs when they come one after the other and none crashes
NextSequential ==
    \E r \in RunIds :
        \/ NoneActive /\ StartRun(r)
        \/ NextEvent(r)
        \/ GetFromDb(r)
        \/ GetAirtable(r)
        \/ Upsert(r)
        \/ CreateJob(r)
        \/ UpdateJob(r)
        \/ GetTranscript(r)
        \/ UpdateTranscript(r)

SpecSequential == InitMeeting /\ [][NextSequential]_vars

\* the event has a recording, the downloads give its bytes and the service
\* has completed no job yet
InitLive ==
    /\ events = <<Event("e1", Summary,
                    <<Attachment("text/plain", Summary, "c1"),
                      Attachment("video/mp4", <<"S", "x">>, "v1")>>)>>
    /\ \E row \in {NoRow} \cup {Row(RecordedMeeting("e1", "v0", t, i)) :
                                    t \in StoredTexts, i \in StoredIds} :
          db = [id \in EventIds |-> row]
    /\ \E rec \in {NoRow} \cup {Row(RecordedMeeting("e1", "v0", t, i)) :
                                    t \in AirtableTexts, i \in AirtableIds} :
          airtable = [id \in EventIds |-> rec]
    /\ jobs = 0
    /\ submitted = [id \in EventIds |-> 0]
    /\ runs = [r \in RunIds |-> IdleRun]
    /\ service = [tracked |-> TRUE, ready |-> {}]
    /\ AssetIdle
    /\ MergeIdle
    /\ ExtIdle

\* the batch job is scheduled again: a run that is over starts anew
Restart(r) ==
    /\ runs[r].pc = "done"
    /\ runs' = [runs EXCEPT ![r] = IdleRun]
    /\ UNCHANGED <<events, db, airtable, jobs, submitted, service, assetVars, mergeVars, extVars>>

\* the transcription service completes a job that was submitted
Complete ==
    /\ \E n \in 1..jobs :
          /\ JobId(n) \notin service.ready
          /\ service' = [service EXCEPT !.ready = @ \cup {JobId(n)}]
    /\ UNCHANGED <<events, db, airtable, jobs, submitted, runs, assetVars, mergeVars, extVars>>

\* the steps of the runs, repeated one after the other
NextRuns ==
    \E r \in RunIds :
        \/ NoneActive /\ StartRun(r)
        \/ NextEvent(r)
        \/ GetFromDb(r)
        \/ GetAirtable(r)
        \/ Upsert(r)
        \/ CreateJob(r)
        \/ UpdateJob(r)
        \/ GetTranscript(r)
        \/ UpdateTranscript(r)
        \/ Restart(r)

NextLive == NextRuns \/ Complete

\* the runs keep being scheduled and each goes on to its end
SpecLive == InitLive /\ [][NextLive]_vars /\ WF_vars(NextRuns)

----------------------------------------------------------------------------
(* Properties of refresh_google_recorded_meetings *)

\* the run r takes a step from the position pc without crashing
Steps(r, pc) == runs[r].pc = pc /\ runs'[r].pc \notin {pc, "crashed"}

\* the event has an mp4 attachment whose title starts with its summary
HasRecording(e) ==
    \E k \in 1..Len(e.attachments) :
        /\ e.attachments[k].mime_type = "video/mp4"
        /\ starts_with(e.attachments[k].title, e.summary)

\* nothing the run read for the event holds a transcript or a job identifier
ReadNothing(run) ==
    /\ run.m.exists =>
          (run.m.fields.transcript = <<>> /\ run.m.fields.transcript_id = "")
    /\ run.existing_airtable.exists =>
          (run.existing_airtable.fields.transcript = <<>>
           /\ run.existing_airtable.fields.transcript_id = "")

C4_Submission ==
    \A id \in EventIds :
        submitted'[id] # submitted[id] =>
            \E r \in RunIds :
                /\ Steps(r, "create_job")
                /\ EventAt(r).id = id
                /\ HasRecording(EventAt(r))
                /\ runs[r].video_contents # <<>>
                /\ runs[r].db_meeting.transcript = <<>>
                /\ runs[r].db_meeting.transcript_id = ""
                /\ db[id].exists
                /\ ReadNothing(runs[r])

\* C4: a transcription job is submitted for an event only if the event has an
\* mp4 attachment whose title starts with the summary, the video bytes are
\* non-empty and the upserted meeting has an empty transcript and an empty
\* transcript_id; never when the run found a transcript or a job identifier.
C4_JobOnlyIf == [][C4_Submission]_vars

\* a job was submitted for an event with a chat log and a recording, whose
\* row had neither transcript nor job identifier
C4_Witness ==
    /\ submitted["e1"] = 1
    /\ \E r \in RunIds :
          /\ runs[r].pc = "update_job"
          /\ Len(EventAt(r).attachments) = 2
          /\ runs[r].m.exists
          /\ runs[r].existing_airtable.exists

\* raw is t between two stretches of whitespace, and t neither starts nor
\* ends with whitespace
IsTrimOf(t, raw) ==
    /\ \E a, b \in 0..Len(raw) :
          /\ a + b <= Len(raw)
          /\ t = SubSeq(raw, a + 1, Len(raw) - b)
          /\ \A k \in (1..a) \cup ((Len(raw) - b + 1)..Len(raw)) : raw[k].c \in Whitespace
    /\ t # <<>> => (t[1].c \notin Whitespace /\ t[Len(t)].c \notin Whitespace)

C5_Step(r) ==
    LET id == EventAt(r).id
        upserted == runs[r].meeting
    IN  /\ Steps(r, "upsert") =>
              /\ db'[id] = Row(upserted)
              /\ runs'[r].pc =
                    IF runs[r].video_contents = <<>> \/ upserted.transcript # <<>> THEN "loop"
                    ELSE IF upserted.transcript_id = "" THEN "create_job"
                    ELSE "get_transcript"
        /\ Steps(r, "create_job") =>
              /\ submitted'[id] = submitted[id] + 1
              /\ runs'[r].job # ""
              /\ runs'[r].pc = "update_job"
        /\ Steps(r, "update_job") =>
              /\ db'[id].exists
              /\ db'[id].fields.transcript_id = runs[r].job
              /\ db'[id].fields.transcript = <<>>
        /\ Steps(r, "get_transcript") =>
              /\ runs'[r].polled_id = runs[r].db_meeting.transcript_id
              /\ runs'[r].polled_id # ""
              /\ runs'[r].pc = "update_transcript"
        /\ Steps(r, "update_transcript") =>
              /\ db'[id].exists
              /\ IsTrimOf(db'[id].fields.transcript, runs[r].polled)
              /\ db'[id].fields.transcript_id = runs[r].polled_id
        /\ submitted' # submitted => \E q \in RunIds : Steps(q, "create_job")
        /\ runs'[r].polled_id # runs[r].polled_id => Steps(r, "get_transcript")

\* C5: with video bytes and no transcript, a run whose upserted meeting has no
\* job identifier submits a job and writes its identifier to the row, and a
\* run whose upserted meeting has one polls with it, stores the trimmed
\* result as the transcript and submits nothing; with empty video bytes the
\* run neither submits nor polls.
C5_SubmitOrPoll == [][\A r \in RunIds : C5_Step(r)]_vars

\* one run submitted job1 and wrote it to the row, and a later run polled with
\* job1 and stored the trimmed text
C5_Witness ==
    /\ runs[1].pc = "done"
    /\ runs[1].job = "job1"
    /\ runs[2].pc = "done"
    /\ runs[2].polled_id = "job1"
    /\ runs[2].polled = Text(" ", 1) \o Text("r", 4) \o Text("\t", 1)
    /\ db["e1"].fields.transcript = Text("r", 4)
    /\ db["e1"].fields.transcript_id = "job1"
    /\ submitted["e1"] = 1

\* C6: nothing guards the submission: a run that found no transcript and no
\* job identifier submits its job whatever has been submitted for the event
\* meanwhile, so concurrent runs, or a run after one that stopped between
\* create_job and the update, submit more than one job for the same event.
C6_NoIdempotencyGuard ==
    \A r \in RunIds : runs[r].pc = "create_job" => ENABLED CreateJob(r)

\* two jobs were submitted for the same event: one by a run that stopped
\* before its identifier reached the row, one by the other run
C6_Witness ==
    /\ submitted["e1"] = 2
    /\ runs[1].pc = "crashed"
    /\ runs[1].job = "job1"
    /\ runs[2].job = "job2"
    /\ db["e1"].fields.transcript_id = "job2"

C7_Step(r) ==
    (Steps(r, "upsert") /\ runs[r].m.exists) =>
        LET id == EventAt(r).id
            m == runs[r].m.fields
            a == runs[r].existing_airtable
            written == db'[id].fields
        IN  /\ written.transcript =
                  IF m.transcript # <<>> THEN m.transcript
                  ELSE IF a.exists THEN a.fields.transcript ELSE <<>>
            /\ written.transcript_id =
                  IF m.transcript_id # "" THEN m.transcript_id
                  ELSE IF a.exists THEN a.fields.transcript_id ELSE ""

\* C7: for a meeting that already has a row, the transcript and transcript_id
\* the upsert writes are the row's values where those are non-empty and the
\* Airtable record's values only for a field whose row value is empty, each
\* field on its own.
C7_MergePrefersRow == [][\A r \in RunIds : C7_Step(r)]_vars

\* the upsert wrote the row's transcript together with the Airtable record's
\* transcript_id, the Airtable record holding another transcript
C7_Witness ==
    /\ db["e1"].exists
    /\ db["e1"].fields.video = "v1"
    /\ db["e1"].fields.transcript = Text("d", 3)
    /\ db["e1"].fields.transcript_id = "air"
    /\ airtable["e1"].fields.transcript = Text("a", 3)

----------------------------------------------------------------------------
(* refresh_zoom_recorded_meetings: the recordings Zoom lists *)

\* Option::None of start_time, of file_type and of status
NoStart == 0
NoType == "None"
NoStatus == "None"

\* str::replace(from, "") for a pattern of several characters
RECURSIVE replace_str(_, _)
replace_str(s, from) ==
    IF Len(s) < Len(from) THEN s
    ELSE IF SubSeq(s, 1, Len(from)) = from
         THEN replace_str(SubSeq(s, Len(from) + 1, Len(s)), from)
         ELSE <<Head(s)>> \o replace_str(Tail(s), from)

\* the letters topics are made of
IsUpper(c) == c \in {"S", "T"}
IsLower(c) == c \in {"s", "t"}
LowerChar(c) == CASE c = "S" -> "s" [] c = "T" -> "t" [] OTHER -> c

\* the words of s in lower case, each followed by "-" unless it ends s
RECURSIVE kebab(_, _)
kebab(s, out) ==
    IF s = <<>> THEN out
    ELSE LET c == Head(s)
             last == IF out = <<>> THEN "-" ELSE out[Len(out)]
         IN  IF ~(IsUpper(c) \/ IsLower(c))
             THEN kebab(Tail(s), IF last = "-" THEN out ELSE Append(out, "-"))
             ELSE IF IsUpper(c) /\ IsLower(last)
                  THEN kebab(Tail(s), out \o <<"-", LowerChar(c)>>)
                  ELSE kebab(Tail(s), Append(out, LowerChar(c)))

\* inflector's to_kebab_case: words split at the characters that are not
\* letters and before a capital that follows a small letter
to_kebab_case(s) ==
    LET k == kebab(s, <<>>)
    IN  IF k # <<>> /\ k[Len(k)] = "-" THEN SubSeq(k, 1, Len(k) - 1) ELSE k

\* FileInfo::to_extension
to_extension(file_type) ==
    CASE file_type = "Mp4" -> <<"-", "v", "i", "d", "e", "o", ".", "m", "p", "4">>
      [] file_type = "M4A" -> <<"-", "a", "u", "d", "i", "o", ".", "m", "4", "a">>
      [] file_type = "Transcript" ->
            <<"-", "t", "r", "a", "n", "s", "c", "r", "i", "p", "t", ".", "v", "t", "t">>
      [] file_type = "Chat" -> <<"-", "c", "h", "a", "t", ".", "t", "x", "t">>
      [] OTHER -> <<>>

\* the name the recording gets in Drive
FileName(topic, file_type) ==
    to_kebab_case(trim(replace_str(topic, <<"'", "s">>))) \o to_extension(file_type)

RecordingFile(id, file_type, status) ==
    [id |-> id, file_type |-> file_type, status |-> status]

ZoomMeeting(uuid, topic, start_time, recording_files) ==
    [uuid |-> uuid, topic |-> topic, start_time |-> start_time,
     recording_files |-> recording_files]

FileTypes == {"Mp4", "M4A", "Transcript", "Chat", "Noop", "FallthroughString", NoType}

Statuses == {NoStatus, "Completed", "Processing"}

\* the recording files of the second meeting of a listing
FileLists ==
    {<<>>}
    \cup {<<RecordingFile("r1", t, s)>> : t \in FileTypes, s \in Statuses}
    \cup {<<RecordingFile("r1", t1, s1), RecordingFile("r2", t2, s2)>> :
            t1 \in FileTypes, s1 \in Statuses, t2 \in FileTypes, s2 \in Statuses}

\* the first meeting of a listing: without a topic, or with one
FirstMeetings ==
    {ZoomMeeting("u1", topic, 1, <<RecordingFile("r0", "Mp4", "Completed")>>) :
        topic \in {<<>>, <<"S">>}}

SecondTopics == {<<>>, <<"S", "'", "s">>, <<"T">>}

StartTimes == {NoStart, 1, 2}

\* what get_all_account returns
Listings ==
    {<<>>}
    \cup {<<m1, ZoomMeeting("u2", topic, start_time, files)>> :
            m1 \in FirstMeetings, topic \in SecondTopics,
            start_time \in StartTimes, files \in FileLists}

Uuids == {"u1", "u2"}

----------------------------------------------------------------------------
(* refresh_zoom_recorded_meetings: the run *)

\* Drive's create_folder
create_folder(d, name) == [d EXCEPT !.folders = @ \cup {name}]

\* the id of the file of that name in that folder
FileId(folder, name) == [folder |-> folder, name |-> name]

\* Drive's create_or_update_file: the file of that name in that folder gets
\* the contents, whether it existed or not
create_or_update_file(d, folder, name, contents) ==
    [d EXCEPT !.files =
        {f \in @ : f.id # FileId(folder, name)}
        \cup {[id |-> FileId(folder, name), contents |-> contents]}]

\* the type test of lines 154-155 passing every FallthroughString
Unrecognized_NoopOnly(file_type) == file_type = "Noop"

\* lines 154-155
Unrecognized(file_type) == file_type \in {"Noop", "FallthroughString"}

\* lines 162-168: a status is given and is not Completed
NotCompleted(status) == status # NoStatus /\ status # "Completed"

\* the locals of lines 143-148
NoLocals == [transcript |-> <<>>, transcript_id |-> "", video |-> "",
             chat_log_link |-> ""]

InitZoom ==
    /\ \E recordings \in Listings, auth \in BOOLEAN :
          zoom = [pc |-> "start", auth |-> auth, recordings |-> recordings,
                  i |-> 1, j |-> 1, start_folder_id |-> "", b |-> "",
                  locals |-> NoLocals,
                  downloaded |-> {}, uploaded |-> {}, trashed |-> {}]
    /\ drive = [folders |-> {}, files |-> {}]
    /\ db = [u \in Uuids |-> NoRow]
    /\ airtable = [u \in Uuids |-> NoRow]
    /\ events = <<>>
    /\ jobs = 0
    /\ submitted = <<>>
    /\ runs = <<>>
    /\ service = AnyAnswer
    /\ batch = <<>>
    /\ asset_items = <<>>
    /\ AssetIdle
    /\ MergeIdle

ZoomFrame == UNCHANGED <<events, jobs, submitted, runs, service, batch,
                         asset_items, assetVars, mergeVars>>

Panic == zoom' = [zoom EXCEPT !.pc = "panicked"]

MeetingAt == zoom.recordings[zoom.i]
FileAt == MeetingAt.recording_files[zoom.j]

\* lines 84-124
ZoomStart ==
    /\ zoom.pc = "start"
    /\ \/ /\ ~zoom.auth \/ zoom.recordings = <<>>
          /\ zoom' = [zoom EXCEPT !.pc = "done"]
          /\ UNCHANGED drive
       \/ /\ zoom.auth /\ zoom.recordings # <<>>
          /\ \/ Panic /\ UNCHANGED drive
             \/ /\ drive' = create_folder(drive, "zoom_recordings")
                /\ zoom' = [zoom EXCEPT !.pc = "meeting"]
    /\ UNCHANGED <<db, airtable>>
    /\ ZoomFrame

\* lines 126-149: the top of the loop over the meetings
ZoomNextMeeting ==
    /\ zoom.pc = "meeting"
    /\ IF zoom.i > Len(zoom.recordings)
       THEN zoom' = [zoom EXCEPT !.pc = "done"] /\ UNCHANGED drive
       ELSE IF MeetingAt.topic = <<>>
       THEN zoom' = [zoom EXCEPT !.i = @ + 1] /\ UNCHANGED drive
       ELSE IF MeetingAt.start_time = NoStart
       THEN Panic /\ UNCHANGED drive
       ELSE \/ Panic /\ UNCHANGED drive
            \/ /\ drive' = create_folder(drive, ToString(MeetingAt.start_time))
               /\ zoom' = [zoom EXCEPT !.pc = "file", !.j = 1,
                                       !.start_folder_id = ToString(MeetingAt.start_time),
                                       !.locals = NoLocals]
    /\ UNCHANGED <<db, airtable>>
    /\ ZoomFrame

\* lines 152-178: the top of the loop over the files, to the download
ZoomNextFile ==
    /\ zoom.pc = "file"
    /\ IF zoom.j > Len(MeetingAt.recording_files)
       THEN zoom' = [zoom EXCEPT !.pc = "host"]
       ELSE IF FileAt.file_type = NoType
       THEN Panic
       ELSE IF Unrecognized(FileAt.file_type) \/ NotCompleted(FileAt.status)
       THEN zoom' = [zoom EXCEPT !.j = @ + 1]
       ELSE \/ Panic
            \/ zoom' = [zoom EXCEPT !.pc = "upload", !.b = FileAt.id,
                                    !.downloaded = @ \cup {FileAt.id}]
    /\ UNCHANGED <<drive, db, airtable>>
    /\ ZoomFrame

\* lines 203-221: the locals after the match on the file type
Matched(locals, file_type, drive_file, recording) ==
    CASE file_type = "Mp4" -> [locals EXCEPT !.video = drive_file]
      [] file_type = "Transcript" ->
            [locals EXCEPT !.transcript = Text(recording.id, 1),
                           !.transcript_id = recording.id]
      [] file_type = "Chat" -> [locals EXCEPT !.chat_log_link = drive_file]
      [] OTHER -> locals

\* lines 188-221: the upload, then the match, whose parsing may fail
ZoomUpload ==
    /\ zoom.pc = "upload"
    /\ LET name == FileName(MeetingAt.topic, FileAt.file_type)
           drive_file == FileId(zoom.start_folder_id, name)
       IN  \/ Panic /\ UNCHANGED drive
           \/ /\ drive' = create_or_update_file(drive, zoom.start_folder_id, name, zoom.b)
              /\ \/ /\ FileAt.file_type \in {"Mp4", "Transcript", "Chat"}
                    /\ zoom' = [zoom EXCEPT !.pc = "panicked",
                                            !.uploaded = @ \cup {FileAt.id}]
                 \/ zoom' = [zoom EXCEPT
                        !.pc = "trash",
                        !.uploaded = @ \cup {FileAt.id},
                        !.locals = Matched(@, FileAt.file_type, drive_file, FileAt)]
    /\ UNCHANGED <<db, airtable>>
    /\ ZoomFrame

\* lines 223-236
ZoomTrash ==
    /\ zoom.pc = "trash"
    /\ \/ Panic
       \/ zoom' = [zoom EXCEPT !.pc = "file", !.j = @ + 1, !.b = "",
                               !.trashed = @ \cup {FileAt.id}]
    /\ UNCHANGED <<drive, db, airtable>>
    /\ ZoomFrame

\* lines 248-266
NewRecordedMeeting(meeting, locals) ==
    [RecordedMeeting(meeting.uuid, locals.video, locals.transcript, locals.transcript_id)
        EXCEPT !.chat_log_link = locals.chat_log_link]

\* lines 238-267: the host is looked up and the meeting upserted
ZoomUpsert ==
    /\ zoom.pc = "host"
    /\ \/ Panic /\ UNCHANGED <<db, airtable>>
       \/ LET m == NewRecordedMeeting(MeetingAt, zoom.locals)
          IN  /\ db' = upsert_in_db(db, m)
              /\ airtable' = upsert_in_airtable(airtable, m)
              /\ zoom' = [zoom EXCEPT !.pc = "meeting", !.i = @ + 1]
    /\ UNCHANGED drive
    /\ ZoomFrame

NextZoom ==
    \/ ZoomStart
    \/ ZoomNextMeeting
    \/ ZoomNextFile
    \/ ZoomUpload
    \/ ZoomTrash
    \/ ZoomUpsert

SpecZoom == InitZoom /\ [][NextZoom]_vars

----------------------------------------------------------------------------
(* The skips of refresh_zoom_recorded_meetings *)

\* the meeting at the top of the loop has no topic
EmptyTopic ==
    /\ zoom.pc = "meeting"
    /\ zoom.i <= Len(zoom.recordings)
    /\ MeetingAt.topic = <<>>

\* the run is at the top of the loop over the files, with a file to look at
AtFile == zoom.pc = "file" /\ zoom.j <= Len(MeetingAt.recording_files)

\* the meeting is passed over: nothing but the loop's position changes
SkipsMeeting ==
    /\ zoom' = [zoom EXCEPT !.i = @ + 1]
    /\ UNCHANGED <<drive, db, airtable>>

\* the file is passed over: nothing but the loop's position changes
SkipsFile ==
    /\ zoom' = [zoom EXCEPT !.j = @ + 1]
    /\ UNCHANGED <<drive, db, airtable>>

\* C12 as the specification words it: a meeting without a topic, and a file
\* of type Noop or FallthroughString or of a status other than Completed,
\* is passed over with no effect but the move to the next one
C12_SkippedWhateverTheType ==
    [][/\ EmptyTopic => SkipsMeeting
       /\ (AtFile /\ (\/ FileAt.file_type \in {"Noop", "FallthroughString"}
                      \/ FileAt.status \in Statuses \ {NoStatus, "Completed"}))
            => SkipsFile]_vars

\* C12: a meeting without a topic is passed over with no folder, download,
\* upload, trashing or row; a file whose type is given and is Noop or
\* FallthroughString, or whose type is given and whose status is given and
\* is not Completed, is passed over without download, upload or trashing;
\* the step changes nothing but the position in the loop, so what follows is
\* handled as if the skipped one were absent
C12_Skipped ==
    [][/\ EmptyTopic => SkipsMeeting
       /\ (/\ AtFile
           /\ FileAt.file_type # NoType
           /\ (\/ FileAt.file_type \in {"Noop", "FallthroughString"}
               \/ FileAt.status \in Statuses \ {NoStatus, "Completed"}))
            => SkipsFile]_vars

\* the meeting without a topic and a file still processing were passed over,
\* and the file after it, which has no status, was moved to Drive
C12_Witness ==
    /\ zoom.pc = "done"
    /\ Len(zoom.recordings) = 2
    /\ zoom.recordings[1].topic = <<>>
    /\ zoom.recordings[2].recording_files =
          <<RecordingFile("r1", "Mp4", "Processing"), RecordingFile("r2", "Chat", NoStatus)>>
    /\ ~db["u1"].exists
    /\ db["u2"].exists
    /\ zoom.downloaded = {"r2"}
    /\ zoom.trashed = {"r2"}
    /\ drive.folders = {"zoom_recordings", ToString(zoom.recordings[2].start_time)}

----------------------------------------------------------------------------
(* Trashing in Zoom *)

\* C19: every recording file trashed in Zoom has a copy in Drive
C19_TrashedHasCopy ==
    \A id \in zoom.trashed : \E f \in drive.files : f.contents = id

----------------------------------------------------------------------------
(* refresh_asset_items *)

\* the characters of the alphabet a Code-39 barcode can hold
Code39Chars == {"0", "X", "A", "7", ".", "-", " ", "/"}

\* Code39::new accepting every text
Code39Valid_Any(barcode) == TRUE

\* Code39::new(&self.barcode) returns Ok
Code39Valid(barcode) ==
    /\ barcode # <<>>
    /\ \A k \in 1..Len(barcode) : barcode[k] \in Code39Chars

\* the n-th name names::Generator gives
Generated(n) == Rep("x", n) \o <<"-", "x">>

\* the name left empty
NameOrGenerated_Empty(name, n) == name

\* lines 311-313
NameOrGenerated(name, n) == IF name = <<>> THEN Generated(n) ELSE name

\* the three file names of generate_barcode_images
PngName(it) == it.type_ \o <<" ">> \o replace(it.name, "/") \o <<".", "p", "n", "g">>
SvgName(it) == it.type_ \o <<",", " ">> \o replace(it.name, "/") \o <<".", "s", "v", "g">>
PdfName(it) ==
    it.type_ \o <<" ">> \o replace(it.name, "/")
        \o <<" ", "-", " ", "B", "a", "r", "c", "o", "d", "e", " ",
             "L", "a", "b", "e", "l", ".", "p", "d", "f">>

\* format!("https://drive.google.com/uc?export=download&id={}", file.id), the
\* file's id being told by its name
DownloadUrl(name) == <<"https://drive.google.com/uc?export=download&id=">> \o name

\* an Airtable record of the asset items table
AssetRecord(id, name, type_) ==
    [id |-> id, fields |-> NewAssetItem(name, type_, <<>>, <<>>)]

BatchNames == {<<>>, <<"x">>, <<"x", "/">>, <<"A", ",">>}

\* what list_records returns
AssetResults ==
    {<<>>}
    \cup {<<AssetRecord("rec1", n, t)>> : n \in BatchNames, t \in Types}
    \cup {<<AssetRecord("rec1", n1, t1), AssetRecord("rec2", n2, t2)>> :
            n1 \in BatchNames, t1 \in Types, n2 \in BatchNames, t2 \in Types}

\* the names a row can be written under
RowNames == BatchNames \cup {Generated(1), Generated(2)}

\* a row of asset_items
AssetRow(it, airtable_record_id) ==
    [exists |-> TRUE, fields |-> it, airtable_record_id |-> airtable_record_id]

NoAssetRow == [exists |-> FALSE]

TheCompany == [id |-> 7, printer_url |-> <<>>]

InitRefresh ==
    /\ \E results \in AssetResults :
          batch = [pc |-> "start", results |-> results, i |-> 1, generated |-> 0,
                   item |-> NewAssetItem(<<>>, <<>>, <<>>, <<>>),
                   upserted |-> {}, written |-> {}]
    /\ \E old \in {NoAssetRow,
                   AssetRow(NewAssetItem(<<"x">>, <<>>, <<"O", "L", "D">>, <<>>), "old")} :
          asset_items = [n \in RowNames |-> IF n = <<"x">> THEN old ELSE NoAssetRow]
    /\ drive = [folders |-> {"assets"}, files |-> {}]
    /\ zoom = <<>>
    /\ item = NewAssetItem(<<>>, <<>>, <<>>, <<>>)
    /\ assetPc = "unused"
    /\ calls = 0
    /\ pdf = NoPdf
    /\ png_bytes = NoImage
    /\ logo = NoImage
    /\ company = TheCompany
    /\ requests = <<>>
    /\ resp = NoResponse
    /\ MeetIdle
    /\ MergeIdle

BatchFrame == UNCHANGED <<zoom, assetVars, meetVars, mergeVars>>

BatchPanic == batch' = [batch EXCEPT !.pc = "panicked"]

RecordAt == batch.results[batch.i]

\* lines 288-308: the Drive folder is found and the records are listed
BatchStart ==
    /\ batch.pc = "start"
    /\ \/ BatchPanic
       \/ batch' = [batch EXCEPT !.pc = "item"]
    /\ UNCHANGED <<drive, asset_items>>
    /\ BatchFrame

\* lines 309-314, 233 and 116-121: the item is made from the record, named,
\* given its barcode, and the barcode is encoded
BatchNextItem ==
    /\ batch.pc = "item"
    /\ IF batch.i > Len(batch.results)
       THEN batch' = [batch EXCEPT !.pc = "done"]
       ELSE LET fresh == RecordAt.fields.name = <<>>
                name == NameOrGenerated(RecordAt.fields.name, batch.generated + 1)
                it == [RecordAt.fields EXCEPT !.name = name,
                                              !.barcode = BarcodeOf(name)]
            IN  batch' = [batch EXCEPT
                    !.item = it,
                    !.generated = IF fresh THEN @ + 1 ELSE @,
                    !.pc = IF it.name = <<>> THEN "upsert"
                           ELSE IF Code39Valid(it.barcode) THEN "png"
                           ELSE "panicked"]
    /\ UNCHANGED <<drive, asset_items>>
    /\ BatchFrame

\* lines 126-131
UploadPng ==
    /\ batch.pc = "png"
    /\ \/ BatchPanic /\ UNCHANGED drive
       \/ /\ drive' = create_or_update_file(drive, "assets", PngName(batch.item), "png")
          /\ batch' = [batch EXCEPT !.pc = "svg",
                           !.item.barcode_png = DownloadUrl(PngName(batch.item))]
    /\ UNCHANGED asset_items
    /\ BatchFrame

\* lines 133-142
UploadSvg ==
    /\ batch.pc = "svg"
    /\ \/ BatchPanic /\ UNCHANGED drive
       \/ /\ drive' = create_or_update_file(drive, "assets", SvgName(batch.item), "svg")
          /\ batch' = [batch EXCEPT !.pc = "pdf",
                           !.item.barcode_svg = DownloadUrl(SvgName(batch.item))]
    /\ UNCHANGED asset_items
    /\ BatchFrame

\* lines 144-149
UploadPdf ==
    /\ batch.pc = "pdf"
    /\ \/ BatchPanic /\ UNCHANGED drive
       \/ /\ drive' = create_or_update_file(drive, "assets", PdfName(batch.item), "pdf")
          /\ batch' = [batch EXCEPT !.pc = "upsert",
                           !.item.barcode_pdf_label = DownloadUrl(PdfName(batch.item))]
    /\ UNCHANGED asset_items
    /\ BatchFrame

\* lines 315-319: the row matched on the name is written, with the company's
\* id and then the record's id
BatchUpsert ==
    /\ batch.pc = "upsert"
    /\ LET it == [batch.item EXCEPT !.cio_company_id = company.id]
       IN  /\ asset_items' = [asset_items EXCEPT ![it.name] = AssetRow(it, RecordAt.id)]
           /\ batch' = [batch EXCEPT !.pc = "item", !.i = @ + 1, !.item = it,
                            !.upserted = @ \cup {RecordAt.id},
                            !.written = @ \cup {it.name}]
    /\ UNCHANGED drive
    /\ BatchFrame

NextRefresh ==
    \/ BatchStart
    \/ BatchNextItem
    \/ UploadPng
    \/ UploadSvg
    \/ UploadPdf
    \/ BatchUpsert

SpecRefresh == InitRefresh /\ [][NextRefresh]_vars

\* the records before the one the run is at
Before == {batch.results[k].id : k \in 1..(batch.i - 1)}

\* the barcode of the record the run is at cannot be encoded
Unencodable ==
    /\ batch.pc = "item"
    /\ batch.i <= Len(batch.results)
    /\ LET name == RecordAt.fields.name
       IN  name # <<>> /\ \E k \in 1..Len(BarcodeOf(name)) : BarcodeOf(name)[k] \notin Code39Chars

\* C13: when the barcode of an item cannot be encoded, or an upload for it
\* fails, refresh_asset_items aborts: the step writes no row, the item is
\* not upserted, the items before it stay upserted, and the aborted run
\* takes no further step (no retry, no later item)
C13_AbortOnFailure ==
    /\ [](batch.pc = "panicked" =>
            /\ batch.upserted = Before
            /\ \A n \in batch.written : asset_items[n].exists)
    /\ [][/\ Unencodable => batch'.pc = "panicked"
          /\ batch'.pc = "panicked" =>
                /\ asset_items' = asset_items
                /\ batch'.upserted = batch.upserted
                /\ batch'.written = batch.written
                /\ batch'.i = batch.i
          /\ batch.pc # "panicked"]_vars

\* the second item could not be encoded after the first was upserted
C13_Witness ==
    /\ batch.pc = "panicked"
    /\ batch.i = 2
    /\ Len(batch.results) = 2
    /\ batch.results[2].fields.name = <<"A", ",">>
    /\ batch.upserted = {"rec1"}
    /\ asset_items[<<"x">>].exists
    /\ asset_items[<<"x">>].airtable_record_id = "rec1"

\* the files Drive holds for the item
Uploaded(it) ==
    \A name \in {PngName(it), SvgName(it), PdfName(it)} :
        \E f \in drive.files : f.id = FileId("assets", name)

----------------------------------------------------------------------------
(* Runs of refresh_google_recorded_meetings one after the other *)

\* the row of the event holds a job identifier
HasJobId(id) == db[id].exists /\ db[id].fields.transcript_id # ""

\* the row of the event holds a transcript
HasTranscript(id) == db[id].exists /\ db[id].fields.transcript # <<>>

\* some run polls the transcription service in this step
Polls == \E r \in RunIds : Steps(r, "get_transcript")

\* C16: over runs that come one after the other and do not crash, at most
\* one job is submitted for an event, and none once its row holds a job
\* identifier, polls that return nothing included
C16_OneJobPerEvent ==
    /\ [](\A id \in EventIds : submitted[id] <= 1)
    /\ [][\A id \in EventIds : HasJobId(id) => submitted'[id] = submitted[id]]_vars

\* the job of the first run was polled by a later run, which got nothing
C16_Witness ==
    /\ submitted["e1"] = 1
    /\ HasJobId("e1")
    /\ db["e1"].fields.transcript_id = "job1"
    /\ db["e1"].fields.transcript = <<>>
    /\ \E r \in RunIds :
          /\ runs[r].pc = "done"
          /\ runs[r].job = ""
          /\ runs[r].polled_id = "job1"
          /\ runs[r].polled = <<>>

\* C17 as the specification words it: once the row holds a transcript, no
\* step of a later run changes its transcript or its transcript_id, submits
\* a job or polls
C17_RowFrozen ==
    [][\A id \in EventIds : HasTranscript(id) =>
          /\ db'[id].exists
          /\ db'[id].fields.transcript = db[id].fields.transcript
          /\ db'[id].fields.transcript_id = db[id].fields.transcript_id
          /\ jobs' = jobs
          /\ ~Polls]_vars

\* C17: once the row holds a transcript, no step of a later run changes the
\* transcript, submits a job or polls; the transcript_id is left as it is
\* when it is non-empty, and an empty one stays empty or becomes the
\* transcript_id of the Airtable record
C17_TranscriptFrozen ==
    [][\A id \in EventIds : HasTranscript(id) =>
          /\ db'[id].exists
          /\ db'[id].fields.transcript = db[id].fields.transcript
          /\ db[id].fields.transcript_id # "" =>
                db'[id].fields.transcript_id = db[id].fields.transcript_id
          /\ db[id].fields.transcript_id = "" =>
                db'[id].fields.transcript_id \in
                    {""} \cup {airtable[i].fields.transcript_id :
                                  i \in {i \in {id} : airtable[i].exists}}
          /\ jobs' = jobs
          /\ ~Polls]_vars

\* a run upserted the row, which kept its transcript and its job identifier
\* against the Airtable record's, and the service was not called
C17_Witness ==
    /\ HasTranscript("e1")
    /\ db["e1"].fields.video = "v1"
    /\ db["e1"].fields.transcript = Text("d", 3)
    /\ db["e1"].fields.transcript_id = "old"
    /\ airtable["e1"].exists
    /\ airtable["e1"].fields.transcript_id = "air"
    /\ jobs = 0
    /\ \E r \in RunIds : runs[r].pc = "done" /\ runs[r].polled_id = ""

\* C18: under repeated runs with the video available, once the service has
\* completed the submitted job and returns its transcript, the row of the
\* event comes to hold a non-empty transcript; a poll that returns nothing
\* lets the run go on, and the update after it leaves the row's job
\* identifier as it was
C18_TranscriptArrives ==
    /\ (service.ready # {}) ~> HasTranscript("e1")
    /\ [][\A r \in RunIds :
            /\ (runs[r].pc = "get_transcript" /\ runs'[r].pc # "get_transcript")
                  => runs'[r].pc = "update_transcript"
            /\ Steps(r, "update_transcript") =>
                  /\ runs'[r].pc \in {"loop", "done"}
                  /\ db[EventAt(r).id].fields.transcript_id # ""
                  /\ db'[EventAt(r).id].fields.transcript_id =
                        db[EventAt(r).id].fields.transcript_id]_vars

\* polls failed before the job was completed, then its transcript was stored
C18_Witness ==
    /\ service.ready = {"job1"}
    /\ db["e1"].exists
    /\ db["e1"].fields.transcript_id = "job1"
    /\ db["e1"].fields.transcript = Text("r", 4)
    /\ \E r \in RunIds :
          /\ runs[r].pc = "done"
          /\ runs[r].polled_id = "job1"
          /\ runs[r].polled = Text(" ", 2)

====
